---- MODULE Spec2Model ----
(***************************************************************************)
(* Model of static/script.js: the filial selector, the asynchronous        *)
(* /data fetches with their response callbacks, the DataTables-backed      *)
(* table region and the export button.                                     *)
(*                                                                         *)
(* Strings that the script converts (the filial, the export URL) are       *)
(* sequences of fragments so that encodeURIComponent and Array.join are    *)
(* modelled by what they do.  Every handler runs to completion on the      *)
(* single event loop, so each handler is one action.                       *)
(***************************************************************************)
EXTENDS Integers, Sequences, FiniteSets, TLC

\* Bound on the number of fetches issued in one page session.
MaxFetches == 3

\* The empty string (falsy in JavaScript).
Empty == <<>>

\* Filials offered by the selection control: a plain name and a name holding a
\* character that encodeURIComponent escapes.  Options adds the empty default
\* the control has when nothing is preselected.
Filials == {<<"N">>, <<"S", " ">>}
Options == Filials \cup {Empty}

\* Row records: ordered key/value pairs (Object.keys order is insertion order).
RecA == << <<"id", "1">>, <<"amount", "50">> >>
RecB == << <<"id", "2">> >>

\* Record sequences the server can answer with for a filial.
RecordSets == {<<>>, <<RecA, RecB>>, <<RecB, RecA>>}

VARIABLES
  pc,             \* "load" before the ready handler ran, "ready" after
  selected,       \* filialSelect.val()
  dataTable,      \* the handle: "null", "live" or "destroyed" (still truthy)
  thead,          \* cells of #tenderTable thead tr
  tbody,          \* rows of #tenderTable tbody, in document order
  checked,        \* document positions of the checked row-select boxes
  exportDisabled, \* exportBtn.prop('disabled')
  fetches,        \* issued $.getJSON requests, in issue order
  shown,          \* history: request filial and rows behind the drawn body
  lastEvent       \* history: the handler that ran last

vars == <<pc, selected, dataTable, thead, tbody, checked, exportDisabled,
          fetches, shown, lastEvent>>

NoTable == [filial |-> Empty, rows |-> <<>>]

\* type: the handler; fetch: the request it issued or answered; href: the value
\* the export handler assigned to window.location.href.
Event(t, id, url) == [type |-> t, fetch |-> id, href |-> url]

----------------------------------------------------------------------------
\* Pure helpers of the response callback and the export handler.

\* encodeURIComponent on one character.
EncodeChar(c) ==
  CASE c = " " -> "%20"
    [] c = "&" -> "%26"
    [] c = "=" -> "%3D"
    [] c = "," -> "%2C"
    [] OTHER -> c

encodeURIComponent(s) == [i \in 1..Len(s) |-> EncodeChar(s[i])]

\* String(n) for the small indices the model uses.
NumberToString(n) == <<"0", "1", "2", "3", "4", "5", "6", "7", "8", "9">>[n + 1]

\* Array.prototype.join(',')
RECURSIVE join(_)
join(a) ==
  IF a = <<>> THEN <<>>
  ELSE IF Len(a) = 1 THEN <<NumberToString(a[1])>>
  ELSE <<NumberToString(a[1]), ",">> \o join(Tail(a))

\* Object.keys(row)
Keys(row) == [i \in 1..Len(row) |-> row[i][1]]

HasKey(row, col) == \E i \in 1..Len(row) : row[i][1] = col

\* Variant: an absent value is rendered as the text "undefined".
CellValue_NoDefault(row, col) ==
  IF \E i \in 1..Len(row) : row[i][1] = col
  THEN row[CHOOSE i \in 1..Len(row) : row[i][1] = col][2]
  ELSE "undefined"

\* row[col] === undefined ? '' : row[col]
CellValue(row, col) ==
  IF HasKey(row, col)
  THEN row[CHOOSE i \in 1..Len(row) : row[i][1] = col][2]
  ELSE ""

\* Variant: the checkbox carries a one-based index.
Checkbox_OneBased(idx) == <<"checkbox", idx + 1>>

\* <input type="checkbox" class="row-select" data-index="idx" />
Checkbox(idx) == <<"checkbox", idx>>

\* The header cells the callback appends: a blank one, then one per column.
HeaderCells(rows) == <<"">> \o Keys(rows[1])

\* dataSet: one array per record, idx zero-based.
DataSet(rows) ==
  LET columns == Keys(rows[1])
  IN [p \in 1..Len(rows) |->
        <<Checkbox(p - 1)>> \o [c \in 1..Len(columns) |-> CellValue(rows[p], columns[c])]]

\* Ordering of the cell strings used by order: [[1, 'asc']].
Rank(v) ==
  CASE v = "" -> 0
    [] v = "1" -> 1
    [] v = "2" -> 2
    [] v = "50" -> 3
    [] OTHER -> 4

RECURSIVE InsertRow(_, _)
InsertRow(sorted, r) ==
  IF sorted = <<>> THEN <<r>>
  ELSE IF Rank(r[2]) < Rank(sorted[1][2]) THEN <<r>> \o sorted
  ELSE <<sorted[1]>> \o InsertRow(Tail(sorted), r)

\* The body DataTables draws: dataSet ordered ascending by the first real
\* column, ties kept in data order.
RECURSIVE DrawRows(_)
DrawRows(ds) ==
  IF ds = <<>> THEN <<>>
  ELSE InsertRow(DrawRows(SubSeq(ds, 1, Len(ds) - 1)), ds[Len(ds)])

\* $('#tenderTable tbody input.row-select:checked').each(... data('index'))
RECURSIVE CheckedFrom(_, _, _)
CheckedFrom(body, chk, p) ==
  IF p > Len(body) THEN <<>>
  ELSE (IF p \in chk THEN <<body[p][1][2]>> ELSE <<>>) \o CheckedFrom(body, chk, p + 1)

CollectChecked(body, chk) == CheckedFrom(body, chk, 1)

\* Variant: the indices parameter is appended without the length test.
ExportUrl_NoLengthTest(filial, indices) ==
  <<"/export?filial=">> \o encodeURIComponent(filial) \o <<"&indices=">> \o join(indices)

\* The export handler's url.
ExportUrl(filial, indices) ==
  <<"/export?filial=">> \o encodeURIComponent(filial)
     \o (IF Len(indices) > 0 THEN <<"&indices=">> \o join(indices) ELSE <<>>)

\* data[filial] || []
RowsOf(data, filial) == IF filial \in DOMAIN data THEN data[filial] ELSE <<>>

----------------------------------------------------------------------------
\* Teardown at the top of fetchAndRender: runs whenever the handle is truthy.
TornHandle(dt) == IF dt # "null" THEN "destroyed" ELSE dt
\* Variant: the teardown forgets to empty the header row.
TornHead_KeepsHeader(dt, head) == head

TornHead(dt, head) == IF dt # "null" THEN <<>> ELSE head
\* Variant: the teardown forgets to empty the body.
TornBody_KeepsRows(dt, body) == body

TornBody(dt, body) == IF dt # "null" THEN <<>> ELSE body

\* One $.getJSON call: the filial its callback closes over, whether it is
\* still pending, and the rows its callback computed once it ran.
Request(filial) == [filial |-> filial, status |-> "pending", rows |-> <<>>]

fetchAndRender(filial) ==
  /\ Len(fetches) < MaxFetches
  /\ dataTable' = TornHandle(dataTable)
  /\ thead' = TornHead(dataTable, thead)
  /\ tbody' = TornBody(dataTable, tbody)
  /\ checked' = IF dataTable # "null" THEN {} ELSE checked
  /\ shown' = IF dataTable # "null" THEN NoTable ELSE shown
  /\ exportDisabled' = TRUE
  /\ fetches' = Append(fetches, Request(filial))
  /\ lastEvent' = Event("select", Len(fetches) + 1, <<>>)

\* The page markup outside this script ships the export button disabled and
\* an empty table region.
MarkupExportDisabled == TRUE
MarkupCells == <<>>

Init ==
  /\ pc = "load"
  /\ selected \in Options
  /\ dataTable = "null"
  /\ thead = MarkupCells
  /\ tbody = MarkupCells
  /\ checked = {}
  /\ exportDisabled = MarkupExportDisabled
  /\ fetches = <<>>
  /\ shown = NoTable
  /\ lastEvent = Event("none", 0, <<>>)

\* Variant: the ready handler fetches without testing initialFilial.
InitialRender_NoTruthTest ==
  /\ pc = "load"
  /\ pc' = "ready"
  /\ fetchAndRender(selected)
  /\ UNCHANGED selected

\* Initial render: the ready handler with a truthy default filial.
InitialRender ==
  /\ pc = "load"
  /\ selected # Empty
  /\ pc' = "ready"
  /\ fetchAndRender(selected)
  /\ UNCHANGED selected

\* The ready handler with no default filial: nothing is fetched.
InitialSkip ==
  /\ pc = "load"
  /\ selected = Empty
  /\ pc' = "ready"
  /\ lastEvent' = Event("load", 0, <<>>)
  /\ UNCHANGED <<selected, dataTable, thead, tbody, checked, exportDisabled,
                 fetches, shown>>

\* filialSelect change handler.
Change(f) ==
  /\ pc = "ready"
  /\ selected' = f
  /\ fetchAndRender(f)
  /\ UNCHANGED pc

\* Variant: the zero-row branch disables the export button before returning.
Respond_EmptyDisables(i, data) ==
  /\ pc = "ready"
  /\ i \in 1..Len(fetches)
  /\ fetches[i].status = "pending"
  /\ LET filial == fetches[i].filial
         rows == RowsOf(data, filial)
     IN /\ fetches' = [fetches EXCEPT ![i] = [filial |-> filial, status |-> "answered", rows |-> rows]]
        /\ lastEvent' = Event("response", i, <<>>)
        /\ IF Len(rows) = 0
           THEN /\ exportDisabled' = TRUE
                /\ UNCHANGED <<dataTable, thead, tbody, checked, shown>>
           ELSE /\ thead' = thead \o HeaderCells(rows)
                /\ dataTable' = "live"
                /\ exportDisabled' = FALSE
                /\ IF dataTable = "live"
                   THEN \/ UNCHANGED <<tbody, checked, shown>>
                        \/ /\ tbody' = DrawRows(DataSet(rows))
                           /\ checked' = {}
                           /\ shown' = [filial |-> filial, rows |-> rows]
                   ELSE /\ tbody' = DrawRows(DataSet(rows))
                        /\ checked' = {}
                        /\ shown' = [filial |-> filial, rows |-> rows]
  /\ UNCHANGED <<pc, selected>>

\* The $.getJSON success callback of fetch i, answered with the object data.
Respond(i, data) ==
  /\ pc = "ready"
  /\ i \in 1..Len(fetches)
  /\ fetches[i].status = "pending"
  /\ LET filial == fetches[i].filial
         rows == RowsOf(data, filial)
     IN /\ fetches' = [fetches EXCEPT ![i] = [filial |-> filial, status |-> "answered", rows |-> rows]]
        /\ lastEvent' = Event("response", i, <<>>)
        /\ IF Len(rows) = 0
           THEN UNCHANGED <<dataTable, thead, tbody, checked, exportDisabled, shown>>
           ELSE /\ thead' = thead \o HeaderCells(rows)
                /\ dataTable' = "live"
                /\ exportDisabled' = FALSE
                /\ IF dataTable = "live"
                   THEN \* DataTable() over a table that is still initialised:
                        \* the library keeps the drawn rows or redraws.
                        \/ UNCHANGED <<tbody, checked, shown>>
                        \/ /\ tbody' = DrawRows(DataSet(rows))
                           /\ checked' = {}
                           /\ shown' = [filial |-> filial, rows |-> rows]
                   ELSE /\ tbody' = DrawRows(DataSet(rows))
                        /\ checked' = {}
                        /\ shown' = [filial |-> filial, rows |-> rows]
  /\ UNCHANGED <<pc, selected>>

\* The request of fetch i fails: the success callback never runs.
Fail(i) ==
  /\ pc = "ready"
  /\ i \in 1..Len(fetches)
  /\ fetches[i].status = "pending"
  /\ fetches' = [fetches EXCEPT ![i].status = "failed"]
  /\ lastEvent' = Event("fail", i, <<>>)
  /\ UNCHANGED <<pc, selected, dataTable, thead, tbody, checked, exportDisabled,
                 shown>>

\* The user ticks or clears the checkbox at document position p.
Toggle(p) ==
  /\ pc = "ready"
  /\ p \in 1..Len(tbody)
  /\ checked' = IF p \in checked THEN checked \ {p} ELSE checked \cup {p}
  /\ lastEvent' = Event("toggle", 0, <<>>)
  /\ UNCHANGED <<pc, selected, dataTable, thead, tbody, exportDisabled,
                 fetches, shown>>

\* exportBtn click handler (a disabled button fires no click).
ExportClick ==
  /\ pc = "ready"
  /\ ~exportDisabled
  /\ lastEvent' = Event("click", 0, ExportUrl(selected, CollectChecked(tbody, checked)))
  /\ UNCHANGED <<pc, selected, dataTable, thead, tbody, checked, exportDisabled,
                 fetches, shown>>

Next ==
  \/ InitialRender
  \/ InitialSkip
  \/ \E f \in Filials : Change(f)
  \/ \E i \in 1..MaxFetches, k \in Filials, rs \in RecordSets : Respond(i, k :> rs)
  \/ \E i \in 1..MaxFetches : Fail(i)
  \/ \E p \in 1..Len(tbody) : Toggle(p)
  \/ ExportClick

Spec == Init /\ [][Next]_vars

----------------------------------------------------------------------------
\* Vocabulary of the properties.

TableRendered == thead # <<>> \/ tbody # <<>>

ViewEmpty == thead = <<>> /\ tbody = <<>>

Outstanding == \E i \in 1..Len(fetches) : fetches[i].status = "pending"

LatestFetch == fetches[Len(fetches)]

\* The view a single render of rows produces on a clean table region.
ViewShows(rows) ==
  IF rows = <<>>
  THEN ViewEmpty /\ exportDisabled
  ELSE /\ thead = HeaderCells(rows)
       /\ tbody = DrawRows(DataSet(rows))
       /\ ~exportDisabled

\* The carried indices of the checked boxes, by increasing document position.
CheckedInDocumentOrder ==
  LET n == Cardinality(checked)
      pos == CHOOSE s \in [1..n -> checked] : \A a, b \in 1..n : a < b => s[a] < s[b]
  IN [k \in 1..n |-> tbody[pos[k]][1][2]]

----------------------------------------------------------------------------
\* C1: the export control is disabled whenever no table is rendered or some
\* issued fetch is still unanswered, and enabled when a table with rows is
\* rendered and no fetch is outstanding.
C1_ExportEnablement ==
  /\ (~TableRendered \/ Outstanding) => exportDisabled
  /\ (TableRendered /\ ~Outstanding) => ~exportDisabled

\* C2: when the export handler navigates with an indices parameter, the
\* checkboxes it scanned belong to a table rendered for the filial in the
\* URL, and every index is a row position of that record set.
C2_IndicesBelongToUrlFilial ==
  (lastEvent.type = "click" /\ checked # {}) =>
     /\ shown.filial = selected
     /\ \A p \in checked : tbody[p][1][2] \in 0..(Len(shown.rows) - 1)

\* C3: right after the callback handled a response without records for the
\* requested filial, no table is rendered and the export control is disabled.
C3_EmptyResponseLeavesViewEmpty ==
  (lastEvent.type = "response" /\ fetches[lastEvent.fetch].rows = <<>>) =>
     ViewEmpty /\ exportDisabled

\* C4: once the response to the most recent selection change has been
\* handled, header, body and export enablement stay as they are until the
\* next selection change.
C4_StableUntilNextSelection ==
  [][(/\ Len(fetches) > 0
      /\ LatestFetch.status = "answered"
      /\ Len(fetches') = Len(fetches))
     => UNCHANGED <<thead, tbody, exportDisabled>>]_vars

\* C5: once every issued fetch has been answered, the view is exactly the
\* one the last response to arrive produces: its rows with export enabled,
\* or no table with export disabled when it had no rows.
C5_LastResponseWins ==
  (/\ lastEvent.type = "response"
   /\ \A i \in 1..Len(fetches) : fetches[i].status = "answered")
  => ViewShows(fetches[lastEvent.fetch].rows)

\* C6: whenever a table is rendered, the header row has one blank cell plus
\* one cell per key of the first record of the rendered record set.
C6_HeaderWidth ==
  (TableRendered /\ shown.rows # <<>>) =>
     Len(thead) = 1 + Len(Keys(shown.rows[1]))

\* C7: right after any call of fetchAndRender the export control is
\* disabled, the table region has no header cells and no body rows, and
\* exactly one new fetch, for the selected filial, has been issued.
C7_SelectionResetsView ==
  [][(lastEvent'.type = "select" /\ lastEvent' # lastEvent) =>
       /\ exportDisabled'
       /\ thead' = <<>>
       /\ tbody' = <<>>
       /\ Len(fetches') = Len(fetches) + 1
       /\ SubSeq(fetches', 1, Len(fetches)) = fetches
       /\ fetches'[Len(fetches')].filial = selected'
       /\ fetches'[Len(fetches')].status = "pending"]_vars

\* C7 witness: a selection change made after a table had been rendered.
C7_Witness ==
  /\ lastEvent.type = "select"
  /\ dataTable = "destroyed"
  /\ \E i \in 1..Len(fetches) : fetches[i].rows # <<>>
  /\ ViewEmpty /\ exportDisabled

\* C8: if the fetch of the most recent selection failed, the export control
\* is disabled and no table is shown until the next selection change.
C8_FailedFetchKeepsViewEmpty ==
  (Len(fetches) > 0 /\ LatestFetch.status = "failed") =>
     exportDisabled /\ ViewEmpty

\* C9 as stated: the navigation target is /export?filial= followed by the
\* filial as selected, and by &indices= with the checked indices in
\* document order exactly when a box is checked.
C9_UrlWithRawFilial ==
  lastEvent.type = "click" =>
     lastEvent.href = <<"/export?filial=">> \o selected
        \o (IF checked # {} THEN <<"&indices=">> \o join(CheckedInDocumentOrder) ELSE <<>>)

\* C9 amended: the navigation target is /export?filial= followed by the
\* percent-encoded filial, and by &indices= with the checked indices
\* comma-joined in document order exactly when a box is checked.
C9_UrlWithEncodedFilial ==
  lastEvent.type = "click" =>
     lastEvent.href = <<"/export?filial=">> \o encodeURIComponent(selected)
        \o (IF checked # {} THEN <<"&indices=">> \o join(CheckedInDocumentOrder) ELSE <<>>)

\* C9 witness: an export of two checked rows whose document order is not
\* their numeric order, for a filial that needs escaping.
C9_Witness ==
  /\ lastEvent.type = "click"
  /\ selected = <<"S", " ">>
  /\ checked = {1, 2}
  /\ tbody[1][1][2] > tbody[2][1][2]
  /\ lastEvent.href = <<"/export?filial=", "S", "%20", "&indices=", "1", ",", "0">>

\* C10: selecting the same filial twice, the server answering with the same
\* records both times, leaves after both responses the header and body a
\* single selection produces.
C10_SameFilialTwice ==
  (/\ Len(fetches) = 2
   /\ fetches[1].filial = fetches[2].filial
   /\ fetches[1].status = "answered"
   /\ fetches[2].status = "answered"
   /\ fetches[1].rows = fetches[2].rows)
  => IF fetches[2].rows = <<>>
     THEN ViewEmpty
     ELSE thead = HeaderCells(fetches[2].rows) /\ tbody = DrawRows(DataSet(fetches[2].rows))

----------------------------------------------------------------------------
\* The step in which the callback of some fetch ran.
ResponseStep == lastEvent'.type = "response" /\ lastEvent' # lastEvent

\* C11: on load with a non-empty default filial exactly one fetch, for that
\* filial, is issued at once, and with no default none is; when the only
\* fetch issued so far has been answered with rows, the view shows them with
\* export enabled.
C11_InitialRender ==
  /\ [][(pc = "load" /\ pc' = "ready") =>
          IF selected # Empty
          THEN fetches' = <<[filial |-> selected, status |-> "pending", rows |-> <<>>]>>
          ELSE fetches' = <<>>]_vars
  /\ []((/\ Len(fetches) = 1
         /\ fetches[1].status = "answered"
         /\ fetches[1].rows # <<>>)
        => (/\ thead = <<"">> \o Keys(fetches[1].rows[1])
            /\ Len(tbody) = Len(fetches[1].rows)
            /\ ~exportDisabled))

\* C11 witness: the single fetch of the page has been answered with rows and
\* the table is on screen with export enabled.
C11_Witness ==
  /\ pc = "ready"
  /\ Len(fetches) = 1
  /\ fetches[1].filial = selected
  /\ fetches[1].status = "answered"
  /\ fetches[1].rows # <<>>
  /\ lastEvent.type = "response"
  /\ TableRendered /\ ~exportDisabled

\* C12: the rendered body has as many rows as the fetched record sequence,
\* and the row built from the record at zero-based position i starts with
\* the checkbox carrying index i.
C12_CheckboxIndexIsPosition ==
  shown.rows # <<>> =>
     /\ Len(tbody) = Len(shown.rows)
     /\ \A i \in 1..Len(shown.rows) :
          \E p \in 1..Len(tbody) :
             /\ tbody[p][1] = <<"checkbox", i - 1>>
             /\ tbody[p][2] = shown.rows[i][1][2]

\* C12 witness: a drawn table whose document order differs from the fetch
\* order, so that index and document position disagree.
C12_Witness ==
  /\ shown.rows = <<RecB, RecA>>
  /\ Len(tbody) = 2
  /\ tbody[1][1] = <<"checkbox", 1>>
  /\ tbody[2][1] = <<"checkbox", 0>>

\* C13: every rendered row has one cell per key of the first record, holding
\* the record's value for that key or the empty string when the record has
\* none; keys found only in later records get no cell.
C13_CellsFollowFirstRecordKeys ==
  shown.rows # <<>> =>
     \A p \in 1..Len(tbody) :
        LET rec == shown.rows[tbody[p][1][2] + 1]
            first == shown.rows[1]
        IN /\ Len(tbody[p]) = 1 + Len(first)
           /\ \A c \in 1..Len(first) :
                IF \E k \in 1..Len(rec) : rec[k][1] = first[c][1]
                THEN <<first[c][1], tbody[p][c + 1]>> \in {rec[k] : k \in 1..Len(rec)}
                ELSE tbody[p][c + 1] = ""

\* C13 witness: a drawn row whose record lacks a key of the first record.
C13_Witness ==
  /\ shown.rows = <<RecA, RecB>>
  /\ \E p \in 1..Len(tbody) : tbody[p] = <<<<"checkbox", 1>>, "2", "">>

C15_RenderOnCleanRegion ==
  [][(ResponseStep /\ fetches'[lastEvent'.fetch].rows # <<>>) =>
       (thead = <<>> /\ tbody = <<>> /\ dataTable # "live")]_vars

\* C16: the dataTable handle is non-null exactly when a table is rendered.
C16_HandleIffRendered == (dataTable # "null") <=> TableRendered

\* C17: handling a response without rows for the requested filial leaves
\* header, body, dataTable handle and export enablement as they were.
C17_EmptyResponseChangesNothing ==
  [][(ResponseStep /\ fetches'[lastEvent'.fetch].rows = <<>>) =>
       UNCHANGED <<thead, tbody, dataTable, exportDisabled>>]_vars

\* C17 witness: a zero-row response handled while a table is on screen.
C17_Witness ==
  /\ lastEvent.type = "response"
  /\ fetches[lastEvent.fetch].rows = <<>>
  /\ TableRendered /\ ~exportDisabled /\ dataTable = "live"

====
